---- MODULE Spec2Model ----
(***************************************************************************)
(* Scenex, the in-browser video frame extractor (src/src/App.tsx, the      *)
(* frame worker and the compression worker).                               *)
(*                                                                         *)
(* The main thread is one JavaScript event loop: every action below is one *)
(* task of that loop (a click, a media event, a worker message) together   *)
(* with all the promise continuations (microtasks) that the task makes     *)
(* runnable, or one task of a worker thread, or one step of the video      *)
(* element's seek machinery.                                               *)
(*                                                                         *)
(* Numbers that JavaScript holds as doubles are exact rationals <<n, d>>   *)
(* here, with d = 0 standing for NaN.  Strings are sequences of            *)
(* one-character strings so that the regular expressions and padStart of   *)
(* the source can be computed character by character.                      *)
(***************************************************************************)
EXTENDS Integers, Sequences, FiniteSets, TLC

(* ------------------------------ bounds -------------------------------- *)

\* navigator.hardwareConcurrency ranges over 1..MaxWorkers
MaxWorkers == 3
\* settings.totalFrames ("count" mode) ranges over 1..MaxFrames
MaxFrames == 4
\* video.duration ranges over 0..MaxDurTicks ticks, and NaN
MaxDurTicks == 4
\* ticks per second of the durations drawn
TicksPerSecond == 120
\* calls of handleFileSelect in the file-selection specification
MaxSelects == 3
\* the largest totalFrames handed to generateFilename on its own
MaxNameTotal == 100001

(* ------------------------- program constants -------------------------- *)

AllModeFps == 60
DefaultFramesPerSecond == 60
DefaultTotalFrames == 100
DefaultConcurrency == 4
Pad5From == 10000
Pad4From == 1000
Pad3From == 100
StreamThreshold == 104857600

(* ------------------------ numbers (JS doubles) ------------------------ *)

RECURSIVE GCD(_, _)
GCD(a, b) == IF b = 0 THEN a ELSE GCD(b, a % b)

NaN == <<0, 0>>

IsNaN(a) == a[2] = 0

\* the fraction a in lowest terms (a and its divisor are evaluated once)
Norm(a) ==
    CHOOSE r \in {IF v[2] = 0 THEN NaN
                  ELSE CHOOSE q \in {<<v[1] \div g, v[2] \div g>> :
                                        g \in {GCD(v[1], v[2])}} : TRUE :
                  v \in {a}} : TRUE

Num(n) == <<n, 1>>

\* a < b; false when either side is NaN, as in JavaScript
RLt(a, b) == ~IsNaN(a) /\ ~IsNaN(b) /\ a[1] * b[2] < b[1] * a[2]

\* a >= b; false when either side is NaN
RGe(a, b) == ~IsNaN(a) /\ ~IsNaN(b) /\ a[1] * b[2] >= b[1] * a[2]

RAdd(a, b) ==
    IF IsNaN(a) \/ IsNaN(b) THEN NaN
    ELSE Norm(<<a[1] * b[2] + b[1] * a[2], a[2] * b[2]>>)

RMul(a, b) ==
    IF IsNaN(a) \/ IsNaN(b) THEN NaN
    ELSE Norm(<<a[1] * b[1], a[2] * b[2]>>)

\* a / b for b # 0 (every divisor of the source is a positive setting)
RDiv(a, b) ==
    IF IsNaN(a) \/ IsNaN(b) THEN NaN
    ELSE Norm(<<a[1] * b[2], a[2] * b[1]>>)

\* Math.ceil
Ceil(a) ==
    IF IsNaN(a) THEN NaN
    ELSE Num((a[1] + a[2] - 1) \div a[2])

\* Math.round: the integer nearest to a, halves rounded up (a >= 0)
Round(a) ==
    IF IsNaN(a) THEN NaN
    ELSE Num((2 * a[1] + a[2]) \div (2 * a[2]))

(* ------------------------------ strings ------------------------------- *)

Digits == <<"0", "1", "2", "3", "4", "5", "6", "7", "8", "9">>

\* String(n) for an integer n >= 0
RECURSIVE NumberToString(_)
NumberToString(n) ==
    IF n < 10 THEN <<Digits[n + 1]>>
    ELSE NumberToString(n \div 10) \o <<Digits[(n % 10) + 1]>>

\* String.prototype.padStart: never truncates
RECURSIVE PadStart(_, _, _)
PadStart(s, len, ch) ==
    IF Len(s) >= len THEN s ELSE PadStart(<<ch>> \o s, len, ch)

\* mutant: String.prototype.includes in place of startsWith
StartsWith_Includes(s, prefix) ==
    \E k \in 0..(Len(s) - Len(prefix)) :
        \A i \in 1..Len(prefix) : s[k + i] = prefix[i]

\* String.prototype.startsWith
StartsWith(s, prefix) ==
    /\ Len(s) >= Len(prefix)
    /\ \A i \in 1..Len(prefix) : s[i] = prefix[i]

\* s.replace(/pat/g, rep) for a literal pat: leftmost, non-overlapping
RECURSIVE ReplaceAll(_, _, _)
ReplaceAll(s, pat, rep) ==
    IF Len(s) < Len(pat) THEN s
    ELSE IF SubSeq(s, 1, Len(pat)) = pat
         THEN rep \o ReplaceAll(SubSeq(s, Len(pat) + 1, Len(s)), pat, rep)
         ELSE <<Head(s)>> \o ReplaceAll(Tail(s), pat, rep)

\* s.replace(/\.[^/.]+$/, ""): drop the last ".ext" when ext is not empty
\* and holds neither "/" nor "."
StripExtension(s) ==
    LET dots == {i \in 1..Len(s) : s[i] = "."}
    IN  IF dots = {} THEN s
        ELSE LET last == CHOOSE i \in dots : \A j \in dots : j <= i
             IN  IF last < Len(s) /\ \A j \in (last + 1)..Len(s) : s[j] # "/"
                 THEN SubSeq(s, 1, last - 1)
                 ELSE s

PercentI == <<"%", "i">>

Dot == <<".">>

Underscore == <<"_">>

(* ------------------------------ values -------------------------------- *)

\* a File object; defined = FALSE stands for undefined / null
File(name, type) == [defined |-> TRUE, name |-> name, type |-> type]

NoFile == [defined |-> FALSE, name |-> <<>>, type |-> <<>>]

VideoSlash == <<"v", "i", "d", "e", "o", "/">>

Mp4Type == VideoSlash \o <<"m", "p", "4">>

PngType == <<"i", "m", "a", "g", "e", "/", "p", "n", "g">>

\* a type that holds "video/" but does not start with it
OddType == <<"x", "-">> \o VideoSlash

ClipMp4 == File(<<"c", "l", "i", "p", ".", "m", "p", "4">>, Mp4Type)

Files ==
    { ClipMp4,
      File(<<"a", ".", "b", ".", "m", "o", "v">>, VideoSlash),
      File(<<"p", ".", "p", "n", "g">>, PngType),
      File(<<"n", "o", "t", "e">>, <<>>),
      File(<<"o", "d", "d">>, OddType) }

\* URL.createObjectURL: a fresh blob URL of the page's origin per call
BlobUrl(n) ==
    <<"b", "l", "o", "b", ":", "h", "t", "t", "p", "s", ":", "/", "/",
      "s", "c", "e", "n", "e", "x", ".", "p", "i", "c", "s", "/", "u">>
    \o NumberToString(n)

Webp == <<"w", "e", "b", "p">>

Jpg == <<"j", "p", "g">>

FramePattern == <<"f", "r", "a", "m", "e", "_", "%", "i">>

\* a filename pattern the text input accepts that holds no %i
PlainPattern == <<"s", "h", "o", "t">>

FpsOptions == {1, 30, 60}

\* video.duration: NaN until the metadata is loaded, else seconds
Durations == {NaN} \cup {Norm(<<t, TicksPerSecond>>) : t \in 0..MaxDurTicks}

(* ------------------------------- state -------------------------------- *)

VARIABLES
    ui,         \* React state: videoFile, videoUrl, isPlaying, progress, ...
    settings,   \* React state: VideoSettings
    hardwareConcurrency,    \* navigator.hardwareConcurrency
    video,      \* the <video> element: duration, shown frame, seek state
    run,        \* locals of extractFrames / processFramesWithWorkers
    co,         \* the processNextBatch coroutines, one per frame worker
    fw,         \* the frame workers: messages to and from each
    cw,         \* the compression worker
    log,        \* history of the run: dequeues, seeks, posts, stores, ...
    call        \* one call of generateFilename: its arguments and result

vars == <<ui, settings, hardwareConcurrency, video, run, co, fw, cw, log, call>>

\* what no handler of the page writes
env == <<settings, hardwareConcurrency, call>>

\* the state as one record, for the steps that run inside one task
Cur ==
    [ui |-> ui, video |-> video, run |-> run, co |-> co, fw |-> fw,
     cw |-> cw, log |-> log]

Commit(S) ==
    \E T \in {S} :
       /\ ui' = T.ui
       /\ video' = T.video
       /\ run' = T.run
       /\ co' = T.co
       /\ fw' = T.fw
       /\ cw' = T.cw
       /\ log' = T.log

IdleRun ==
    [pc |-> "idle", totalFrames |-> Num(0), frameInterval |-> Num(0),
     frameQueue |-> <<>>, builtQueue |-> <<>>, frames |-> <<>>,
     completedFrames |-> 0]

IdleVideo(duration) ==
    [duration |-> duration, paused |-> TRUE, position |-> Num(0), seeking |-> FALSE,
     seekTarget |-> Num(0), seekedQueued |-> 0, listeners |-> <<>>]

NoCompressionWorker ==
    [created |-> FALSE, terminated |-> FALSE, inbox |-> <<>>, outbox |-> <<>>]

EmptyLog ==
    [deq |-> <<>>, seeks |-> <<>>, posts |-> <<>>, stores |-> <<>>,
     errors |-> 0, compressions |-> 0, downloads |-> <<>>, selects |-> <<>>,
     delivered |-> <<>>, reports |-> <<>>]

NoCall == [index |-> 0, totalFrames |-> Num(0), originalName |-> <<>>,
           returned |-> FALSE, result |-> <<>>]

(* --------------------- generateFilename (App.tsx) --------------------- *)

PaddingLength(totalFrames) ==
    IF RGe(totalFrames, Num(Pad5From)) THEN 5
    ELSE IF RGe(totalFrames, Num(Pad4From)) THEN 4
    ELSE IF RGe(totalFrames, Num(Pad3From)) THEN 3
    ELSE 2

FilenamePattern(originalName) ==
    IF settings.useOriginalName
    THEN StripExtension(originalName) \o Underscore \o PercentI
    ELSE settings.filenamePattern

GenerateFilename(index, totalFrames, originalName) ==
    ReplaceAll(FilenamePattern(originalName), PercentI,
               PadStart(NumberToString(index), PaddingLength(totalFrames), "0"))
    \o Dot \o settings.format

(* ------------- extractFrames: interval, count and the queue ----------- *)

\* mutant: "all" mode steps by 1/30 s, as its comment says
FrameInterval_30fps(duration) ==
    CASE settings.extractionMode = "all" -> RDiv(Num(1), Num(30))
      [] settings.extractionMode = "interval" ->
            RDiv(Num(1), Num(settings.framesPerSecond))
      [] settings.extractionMode = "count" ->
            RDiv(duration, Num(settings.totalFrames))

FrameInterval(duration) ==
    CASE settings.extractionMode = "all" -> RDiv(Num(1), Num(AllModeFps))
      [] settings.extractionMode = "interval" ->
            RDiv(Num(1), Num(settings.framesPerSecond))
      [] settings.extractionMode = "count" ->
            RDiv(duration, Num(settings.totalFrames))

TotalFramesToExtract(duration) ==
    CASE settings.extractionMode = "all" -> Ceil(RMul(duration, Num(AllModeFps)))
      [] settings.extractionMode = "interval" ->
            Ceil(RMul(duration, Num(settings.framesPerSecond)))
      [] settings.extractionMode = "count" -> Num(settings.totalFrames)

\* while (frameQueue.length < totalFrames && currentTime < video.duration)
QueueLoopContinues(frameQueue, currentTime, totalFrames, duration) ==
    RLt(Num(Len(frameQueue)), totalFrames) /\ RLt(currentTime, duration)

RECURSIVE BuildFrameQueue(_, _, _, _, _)
BuildFrameQueue(frameQueue, currentTime, totalFrames, frameInterval, duration) ==
    IF QueueLoopContinues(frameQueue, currentTime, totalFrames, duration)
    THEN BuildFrameQueue(Append(frameQueue, currentTime),
                         RAdd(currentTime, frameInterval),
                         totalFrames, frameInterval, duration)
    ELSE frameQueue

\* navigator.hardwareConcurrency || 4
WorkerCount == IF hardwareConcurrency = 0 THEN DefaultConcurrency ELSE hardwareConcurrency

NewWorker == [terminated |-> FALSE, inbox |-> <<>>, outbox |-> <<>>]

\* worker.postMessage: a terminated worker takes no message
PostMessage(worker, msg) ==
    IF worker.terminated THEN worker
    ELSE [worker EXCEPT !.inbox = Append(@, msg)]

\* mutant: terminate() leaves the worker running
Terminate_Noop(worker) == worker

\* worker.terminate(): the worker stops and its queued messages are dropped
Terminate(worker) == [terminated |-> TRUE, inbox |-> <<>>, outbox |-> <<>>]

\* mutant: every coroutine is handed the first worker of the pool
WorkerOf_First(c) == 1

\* workers.map(worker => processNextBatch(worker)): coroutine c owns worker c
WorkerOf(c) == c

(* ---------------------- extractFrames: the ending --------------------- *)

\* finally: setIsProcessing(false); setProgress(0); terminate the workers
Finally(S, result) ==
    [S EXCEPT !.ui.isProcessing = FALSE,
              !.ui.progress = 0,
              !.fw = [w \in DOMAIN S.fw |-> Terminate(S.fw[w])],
              !.run.pc = result]

\* catch: console.error; alert; then finally
Catch(S) == Finally([S EXCEPT !.ui.alerts = @ + 1], "failed")

\* compressFrames: a new compression worker is handed the frames
CompressFrames(S) ==
    [S EXCEPT !.cw = [created |-> TRUE, terminated |-> FALSE,
                      inbox |-> <<[frames |-> S.run.frames]>>, outbox |-> <<>>],
              !.run.pc = "compress",
              !.log.compressions = @ + 1]

\* a coroutine returns: Promise.all resolves when every coroutine has returned
Return(S, c) ==
    LET S1 == [S EXCEPT !.co[c].pc = "done"]
    IN  IF S.run.pc = "frames" /\ \A d \in DOMAIN S1.co : S1.co[d].pc = "done"
        THEN CompressFrames(S1)
        ELSE S1

\* mutant: the worker's error is swallowed and the coroutine just returns
Reject_Swallowed(S, c) == Return(S, c)

\* a coroutine's promise rejects: Promise.all rejects once, while it is awaited
Reject(S, c) ==
    LET S1 == [S EXCEPT !.co[c].pc = "failed"]
    IN  IF S.run.pc = "frames" THEN Catch(S1) ELSE S1

(* --------------------------- processNextBatch ------------------------- *)

\* mutant: the head is read (frameQueue[0]) and left in the queue
Dequeue_Peek(frameQueue) == frameQueue

\* frameQueue.shift(): the queue that is left
Dequeue(frameQueue) == Tail(frameQueue)

\* the loop head: shift a frame time, seek to it, listen for 'seeked' once
LoopHead(S, c) ==
    IF Len(S.run.frameQueue) > 0
    THEN LET frameTime == Head(S.run.frameQueue)
             qpos == Len(S.run.builtQueue) - Len(S.run.frameQueue)
         IN  [S EXCEPT !.run.frameQueue = Dequeue(@),
                       !.video.seeking = TRUE,
                       !.video.seekTarget = frameTime,
                       !.video.listeners = Append(@, c),
                       !.co[c] = [@ EXCEPT !.pc = "awaitSeeked",
                                           !.frameTime = frameTime,
                                           !.qpos = qpos],
                       !.log.deq = Append(@, [co |-> c, qpos |-> qpos]),
                       !.log.seeks = Append(@, frameTime)]
    ELSE Return(S, c)

\* after 'seeked': draw the video as it is shown now, post it to the worker
Capture(S, c, ctxOk) ==
    IF ~ctxOk THEN Reject(S, c)
    ELSE LET w == WorkerOf(c)
             request == [imageData |-> S.video.position,
                         format |-> settings.format,
                         frameNumber |-> S.run.completedFrames]
         IN  [S EXCEPT !.co[c].pc = "awaitWorker",
                       !.co[c].image = S.video.position,
                       !.fw[w] = PostMessage(@, request),
                       !.log.posts = Append(@, [co |-> c, worker |-> w,
                                                qpos |-> S.co[c].qpos,
                                                frameTime |-> S.co[c].frameTime,
                                                image |-> S.video.position])]

\* mutant: the event is consumed by the listener that registered first
CaptureAll_FirstOnly(S, listeners, noCtx) ==
    IF listeners = <<>> THEN S
    ELSE Capture(S, Head(listeners), Head(listeners) \notin noCtx)

\* dispatch of 'seeked': the listeners are called in the order they registered
RECURSIVE CaptureAll(_, _, _)
CaptureAll(S, listeners, noCtx) ==
    IF listeners = <<>> THEN S
    ELSE CaptureAll(Capture(S, Head(listeners), Head(listeners) \notin noCtx),
                    Tail(listeners), noCtx)

\* mutant: the percentage is rounded down
ProgressOf_Floor(completedFrames, totalFrames) ==
    LET a == RMul(RDiv(Num(completedFrames), totalFrames), Num(100))
    IN  a[1] \div a[2]

\* Math.round((completedFrames / totalFrames) * 100)
ProgressOf(completedFrames, totalFrames) ==
    Round(RMul(RDiv(Num(completedFrames), totalFrames), Num(100)))[1]

\* store the frame under its filename, count it, report progress, loop
StoreFrame(S, c, frameData) ==
    LET index == S.run.completedFrames
        filename == GenerateFilename(index, S.run.totalFrames, S.ui.videoUrl)
        S1 == [S EXCEPT !.run.frames = (filename :> frameData) @@ @,
                        !.run.completedFrames = @ + 1,
                        !.ui.progress = ProgressOf(index + 1, S.run.totalFrames),
                        !.log.reports =
                            Append(@, [completed |-> index + 1,
                                       value |-> ProgressOf(index + 1,
                                                            S.run.totalFrames)]),
                        !.log.stores = Append(@, [index |-> index,
                                                  qpos |-> S.co[c].qpos,
                                                  co |-> c,
                                                  filename |-> filename,
                                                  data |-> frameData])]
    IN  CHOOSE R \in {LoopHead(T, c) : T \in {S1}} : TRUE

\* 'error' in e.data
IsErrorResponse(data) == "error" \in DOMAIN data

(* ------------------------------ workers ------------------------------- *)

\* canvas.convertToBlob + arrayBuffer: the image encoded in the format
Encode(imageData, format) == [format |-> format, image |-> imageData]

UnknownError == "Unknown error"

\* new Error('Failed to get context') of the frame worker
FailedToGetContext == "Failed to get context"

\* error instanceof Error ? error.message : 'Unknown error'
ErrorMessages == {FailedToGetContext, UnknownError}

\* mutant: the success carries the frame number of the first request
SuccessReply_FirstFrame(request) ==
    [frameNumber |-> 0,
     data |-> Encode(request.imageData, request.format)]

\* self.postMessage({frameNumber, data: new Uint8Array(buffer)}, [buffer])
SuccessReply(request) ==
    [frameNumber |-> request.frameNumber,
     data |-> Encode(request.imageData, request.format)]

\* self.postMessage({error: ...}) of the catch block
ErrorReply(message) == [error |-> message]

\* sizes in bytes of the archive that JSZip generates (an empty one is 22)
ZipSizes == {22, StreamThreshold, StreamThreshold + 1}

\* if (e.data.error)
IsCompressionError(data) == "error" \in DOMAIN data /\ data.error # ""

\* mutant: an archive of exactly 100 MiB is streamed too
UsesStreamSaver_AtLeast(size) == size >= StreamThreshold

\* blob.size > 100 * 1024 * 1024
UsesStreamSaver(size) == size > StreamThreshold

(* ------------------------------ actions ------------------------------- *)

\* the coroutines start one after the other, each up to its first await
RECURSIVE StartAll(_, _, _)
StartAll(S, c, n) ==
    IF c > n THEN S ELSE StartAll(LoopHead(S, c), c + 1, n)

\* click on "Extract Frames", up to await Promise.all(...)
ExtractFrames ==
    /\ run.pc = "idle"
    /\ ~ui.isProcessing
    /\ ui.videoFile.defined
    /\ LET n == WorkerCount
           duration == video.duration
           frameInterval == FrameInterval(duration)
           totalFrames == TotalFramesToExtract(duration)
           frameQueue == BuildFrameQueue(<<>>, Num(0), totalFrames,
                                         frameInterval, duration)
           S1 == [Cur EXCEPT
                    !.fw = [w \in 1..n |-> NewWorker],
                    !.ui.isProcessing = TRUE,
                    !.ui.progress = 0,
                    !.run = [pc |-> "frames", totalFrames |-> totalFrames,
                             frameInterval |-> frameInterval,
                             frameQueue |-> frameQueue,
                             builtQueue |-> frameQueue,
                             frames |-> <<>>, completedFrames |-> 0],
                    !.co = [c \in 1..n |->
                              [pc |-> "start", frameTime |-> NaN, qpos |-> 0,
                               image |-> NaN]]]
       IN  Commit(StartAll(S1, 1, n))
    /\ UNCHANGED env

\* the video element finishes the seek that is under way and queues 'seeked'
SeekFinish ==
    /\ video.seeking
    /\ video' = [video EXCEPT !.seeking = FALSE,
                              !.position = video.seekTarget,
                              !.seekedQueued = @ + 1]
    /\ UNCHANGED <<ui, run, co, fw, cw, log, env>>

\* 'seeked' is dispatched: every listener is called and removed ({once: true}),
\* and each coroutine it resumes runs up to its next await
SeekedEvent ==
    /\ video.seekedQueued > 0
    /\ \E noCtx \in SUBSET {video.listeners[i] : i \in DOMAIN video.listeners} :
         Commit(CaptureAll([Cur EXCEPT !.video.seekedQueued = @ - 1,
                                       !.video.listeners = <<>>],
                           video.listeners, noCtx))
    /\ UNCHANGED env

\* frame worker w handles one request and posts one reply
FrameWorkerOnMessage(w) ==
    /\ ~fw[w].terminated
    /\ fw[w].inbox # <<>>
    /\ LET request == Head(fw[w].inbox)
       IN  \E reply \in {SuccessReply(request)} \cup
                         {ErrorReply(m) : m \in ErrorMessages} :
             /\ fw' = [fw EXCEPT ![w].inbox = Tail(@),
                                 ![w].outbox = Append(@, reply)]
             /\ log' = [log EXCEPT !.errors = IF IsErrorResponse(reply)
                                              THEN @ + 1 ELSE @]
    /\ UNCHANGED <<ui, video, run, co, cw, env>>

\* the reply of c's worker arrives: handleMessage settles the promise and the
\* coroutine goes on (stores the frame and loops) or throws
HandleMessage(c) ==
    LET w == WorkerOf(c) IN
    /\ co[c].pc = "awaitWorker"
    /\ ~fw[w].terminated
    /\ fw[w].outbox # <<>>
    /\ \E data \in {Head(fw[w].outbox)} :
       \E S1 \in {[Cur EXCEPT !.fw[w].outbox = Tail(@)]} :
          Commit(IF IsErrorResponse(data)
                 THEN Reject(S1, c)
                 ELSE StoreFrame(S1, c, data.data))
    /\ UNCHANGED env

\* the compression worker zips the frames it was sent, or fails
CompressionWorkerOnMessage ==
    /\ cw.created /\ ~cw.terminated
    /\ cw.inbox # <<>>
    /\ \E reply \in {[error |-> UnknownError]} \cup
                    {[data |-> [names |-> DOMAIN Head(cw.inbox).frames,
                                size |-> z]] : z \in ZipSizes} :
         cw' = [cw EXCEPT !.inbox = Tail(@), !.outbox = Append(@, reply)]
    /\ UNCHANGED <<ui, video, run, co, fw, log, env>>

\* createDownload up to its first await, or to its end
CreateDownload(S, compressedData) ==
    IF UsesStreamSaver(compressedData.size)
    THEN [S EXCEPT !.log.downloads =
                       Append(@, [kind |-> "stream", archive |-> compressedData]),
                   !.run.pc = "download"]
    ELSE Finally([S EXCEPT !.log.downloads =
                       Append(@, [kind |-> "link", archive |-> compressedData])],
                 "done")

\* worker.onmessage of compressFrames, and extractFrames after it
HandleCompressionMessage ==
    /\ run.pc = "compress"
    /\ cw.outbox # <<>>
    /\ LET data == Head(cw.outbox)
           S1 == [Cur EXCEPT !.cw.outbox = Tail(@)]
       IN  Commit(IF IsCompressionError(data)
                  THEN Catch(S1)
                  ELSE CreateDownload([S1 EXCEPT !.cw.terminated = TRUE,
                                                 !.log.delivered = Append(@, data.data)],
                                      data.data))
    /\ UNCHANGED env

\* readableStream.pipeTo(fileStream) settles
PipeToSettles ==
    /\ run.pc = "download"
    /\ \E ok \in BOOLEAN :
         Commit(IF ok THEN Finally(Cur, "done") ELSE Catch(Cur))
    /\ UNCHANGED env

(* --------------------------- file selection --------------------------- *)

\* handleFileSelect, on the React state u
HandleFileSelect(u, file) ==
    IF file.defined /\ StartsWith(file.type, VideoSlash)
    THEN [u EXCEPT !.videoFile = file,
                   !.videoUrl = BlobUrl(u.urls + 1),
                   !.urls = @ + 1,
                   !.isPlaying = FALSE,
                   !.progress = 0]
    ELSE [u EXCEPT !.alerts = @ + 1]

\* onDrop of the drop zone, which is shown while no video is selected;
\* e.dataTransfer.files[0] is undefined when nothing was dropped
HandleDrop(file) ==
    /\ ~ui.videoFile.defined
    /\ Len(log.selects) < MaxSelects
    /\ ui' = HandleFileSelect([ui EXCEPT !.isDragging = FALSE], file)
    /\ log' = [log EXCEPT !.selects = Append(@, file)]
    /\ UNCHANGED <<video, run, co, fw, cw, env>>

\* onChange of the hidden file input
HandleFileInput(file) ==
    /\ Len(log.selects) < MaxSelects
    /\ IF file.defined
       THEN /\ ui' = HandleFileSelect(ui, file)
            /\ log' = [log EXCEPT !.selects = Append(@, file)]
       ELSE UNCHANGED <<ui, log>>
    /\ UNCHANGED <<video, run, co, fw, cw, env>>

DragOver ==
    /\ ~ui.videoFile.defined
    /\ ui' = [ui EXCEPT !.isDragging = TRUE]
    /\ UNCHANGED <<video, run, co, fw, cw, log, env>>

DragLeave ==
    /\ ~ui.videoFile.defined
    /\ ui' = [ui EXCEPT !.isDragging = FALSE]
    /\ UNCHANGED <<video, run, co, fw, cw, log, env>>

\* togglePlayback: the play button over the video preview
TogglePlayback ==
    /\ ui.videoFile.defined
    /\ video' = [video EXCEPT !.paused = ui.isPlaying]
    /\ ui' = [ui EXCEPT !.isPlaying = ~@]
    /\ UNCHANGED <<run, co, fw, cw, log, env>>

\* onEnded of the video
VideoEnded ==
    /\ ui.videoFile.defined
    /\ ~video.paused
    /\ video' = [video EXCEPT !.paused = TRUE]
    /\ ui' = [ui EXCEPT !.isPlaying = FALSE]
    /\ UNCHANGED <<run, co, fw, cw, log, env>>

\* the X button over the video preview
ClearVideo ==
    /\ ui.videoFile.defined
    /\ ui' = [ui EXCEPT !.videoFile = NoFile, !.videoUrl = <<>>,
                        !.isPlaying = FALSE]
    /\ video' = IdleVideo(video.duration)
    /\ UNCHANGED <<run, co, fw, cw, log, env>>

\* progress values a run shows while it is processing
ShownProgress == {0, 50}

DefaultSettings ==
    [format |-> Webp, extractionMode |-> "all",
     framesPerSecond |-> DefaultFramesPerSecond,
     totalFrames |-> DefaultTotalFrames, filenamePattern |-> FramePattern,
     useOriginalName |-> FALSE]

\* no video is selected; the inputs of handleFileSelect are still to come
InitFile ==
    /\ ui \in {[videoFile |-> NoFile, videoUrl |-> <<>>, urls |-> 0,
                 isPlaying |-> FALSE, progress |-> p, isDragging |-> FALSE,
                 isProcessing |-> (p # 0), alerts |-> 0] : p \in ShownProgress}
    /\ settings = DefaultSettings
    /\ hardwareConcurrency = 1
    /\ video = IdleVideo(NaN)
    /\ run = IdleRun
    /\ co = <<>>
    /\ fw = <<>>
    /\ cw = NoCompressionWorker
    /\ log = EmptyLog
    /\ call = NoCall

NextFile ==
    \/ \E file \in Files \cup {NoFile} : HandleDrop(file)
    \/ \E file \in Files \cup {NoFile} : HandleFileInput(file)
    \/ DragOver
    \/ DragLeave
    \/ TogglePlayback
    \/ VideoEnded
    \/ ClearVideo

SpecFile == InitFile /\ [][NextFile]_vars

(* ----------------------- generateFilename alone ----------------------- *)

NameTotals ==
    {1, 2, Pad3From - 1, Pad3From, Pad4From - 1, Pad4From, Pad5From - 1,
     Pad5From, 10 * Pad5From - 1, 10 * Pad5From, MaxNameTotal}

\* indexes 0..totalFrames-1: both ends and around every power of ten between
NameIndexes(totalFrames) ==
    {i \in {0, 1, 9, 10, Pad3From - 1, Pad3From, Pad4From - 1, Pad4From,
            Pad5From - 1, Pad5From, 10 * Pad5From - 1, totalFrames - 1} :
        i < totalFrames}

NameSettings ==
    {[DefaultSettings EXCEPT !.format = f, !.filenamePattern = p,
                             !.useOriginalName = u] :
        f \in {Webp, Jpg}, p \in {FramePattern, PlainPattern}, u \in BOOLEAN}

InitName ==
    /\ ui = [videoFile |-> ClipMp4, videoUrl |-> BlobUrl(1), urls |-> 1,
             isPlaying |-> FALSE, progress |-> 0, isDragging |-> FALSE,
             isProcessing |-> FALSE, alerts |-> 0]
    /\ settings \in NameSettings
    /\ hardwareConcurrency = 1
    /\ video = IdleVideo(NaN)
    /\ run = IdleRun
    /\ co = <<>>
    /\ fw = <<>>
    /\ cw = NoCompressionWorker
    /\ log = EmptyLog
    /\ \E t \in NameTotals :
         \E i \in NameIndexes(t) :
            call = [index |-> i, totalFrames |-> Num(t),
                    originalName |-> ui.videoUrl, returned |-> FALSE,
                    result |-> <<>>]

\* generateFilename(index, totalFrames, video.src) is called and returns
GenerateFilenameCall ==
    /\ ~call.returned
    /\ call' = [call EXCEPT !.returned = TRUE,
                            !.result = GenerateFilename(call.index,
                                                        call.totalFrames,
                                                        call.originalName)]
    /\ UNCHANGED <<ui, settings, hardwareConcurrency, video, run, co, fw, cw, log>>

NextName == GenerateFilenameCall

SpecName == InitName /\ [][NextName]_vars

(* --------------------------- specification ---------------------------- *)

RunSettings ==
    {s \in [format : {Webp},
            extractionMode : {"all", "interval", "count"},
            framesPerSecond : FpsOptions,
            totalFrames : (1..MaxFrames) \cup {DefaultTotalFrames},
            filenamePattern : {FramePattern, PlainPattern},
            useOriginalName : BOOLEAN] :
        /\ s.extractionMode # "interval" => s.framesPerSecond = DefaultFramesPerSecond
        /\ s.extractionMode # "count" => s.totalFrames = DefaultTotalFrames
        /\ s.extractionMode = "count" => s.totalFrames <= MaxFrames
        /\ s.useOriginalName => s.filenamePattern = FramePattern}

\* a video file has been selected; nothing is being processed
Init ==
    /\ ui = [videoFile |-> ClipMp4, videoUrl |-> BlobUrl(1), urls |-> 1,
             isPlaying |-> FALSE, progress |-> 0, isDragging |-> FALSE,
             isProcessing |-> FALSE, alerts |-> 0]
    /\ settings \in RunSettings
    /\ hardwareConcurrency \in 1..MaxWorkers
    /\ video \in {IdleVideo(d) : d \in Durations}
    /\ run = IdleRun
    /\ co = <<>>
    /\ fw = <<>>
    /\ cw = NoCompressionWorker
    /\ log = EmptyLog
    /\ call = NoCall

Next ==
    \/ ExtractFrames
    \/ SeekFinish
    \/ SeekedEvent
    \/ \E w \in DOMAIN fw : FrameWorkerOnMessage(w)
    \/ \E c \in DOMAIN co : HandleMessage(c)
    \/ CompressionWorkerOnMessage
    \/ HandleCompressionMessage
    \/ PipeToSettles

Spec == Init /\ [][Next]_vars

\* the video element finishes every seek that is not superseded and fires
\* 'seeked'; every frame worker handles the requests in its inbox; the event
\* loop delivers every reply to its handler
Fairness ==
    /\ WF_vars(SeekFinish)
    /\ WF_vars(SeekedEvent)
    /\ \A w \in 1..MaxWorkers :
         WF_vars(w \in DOMAIN fw /\ FrameWorkerOnMessage(w))
    /\ \A c \in 1..MaxWorkers :
         WF_vars(c \in DOMAIN co /\ HandleMessage(c))

SpecLive == Init /\ [][Next]_vars /\ Fairness

(* ------------------------------- claims ------------------------------- *)

\* processFramesWithWorkers has resolved: its frames went to compressFrames
Resolved == log.compressions > 0

\* C1: when processFramesWithWorkers resolves, the frames collection holds
\* exactly one entry per queued frame time.
AllFramesPackaged ==
    Resolved => Cardinality(DOMAIN run.frames) = Len(run.builtQueue)

\* C2: whenever a coroutine draws the video, the frame the video shows is the
\* frame time this coroutine dequeued and sought.
CapturesSoughtFrame ==
    \A i \in DOMAIN log.posts : log.posts[i].image = log.posts[i].frameTime

\* C3: the index in the filename a frame is stored under is the position of
\* that frame's time in the frame-time queue.
IndexIsQueuePosition ==
    \A i \in DOMAIN log.stores : log.stores[i].index = log.stores[i].qpos

\* C4: every frame worker has at most one encode request outstanding, so no
\* more requests are in flight than there are workers.
OneRequestPerWorker ==
    /\ \A w \in DOMAIN fw : Len(fw[w].inbox) + Len(fw[w].outbox) <= 1
    /\ Cardinality({i \in DOMAIN log.posts :
                      \A j \in DOMAIN log.stores :
                         log.stores[j].qpos # log.posts[i].qpos})
         <= Cardinality(DOMAIN fw)

\* C4 witness: both workers of a pool of two hold a request at once.
BothWorkersBusy ==
    /\ DOMAIN fw = 1..2
    /\ \A w \in DOMAIN fw : Len(fw[w].inbox) = 1

\* the queue positions in a history of dequeues or posts are all different
Distinct(h) == \A i, j \in DOMAIN h : i # j => h[i].qpos # h[j].qpos

FailedFrameFailsRun ==
    log.errors > 0 =>
        /\ log.compressions = 0
        /\ log.downloads = <<>>
        /\ run.pc \in {"frames", "failed"}
        /\ ui.alerts = IF run.pc = "failed" THEN 1 ELSE 0

\* C6 witness: a worker answered with an error and the run has failed.
RunFailedOnWorkerError ==
    /\ log.errors > 0
    /\ run.pc = "failed"
    /\ ui.alerts = 1
    /\ Len(log.stores) > 0

\* the frame-time queue as the statement of C7 describes it, for the mode set
QueueAsDescribed ==
    LET q == run.builtQueue
        n == Len(q)
        duration == video.duration
        fps == IF settings.extractionMode = "all" THEN 60
               ELSE settings.framesPerSecond
        d == IF settings.extractionMode = "count"
             THEN RDiv(duration, Num(settings.totalFrames))
             ELSE <<1, fps>>
    IN  /\ run.totalFrames = Num(n)
        /\ IF settings.extractionMode = "count"
           THEN n = settings.totalFrames
           ELSE \* n = ceil(duration * fps): the least integer >= duration * fps
                /\ RGe(Num(n), RMul(duration, Num(fps)))
                /\ RLt(Num(n - 1), RMul(duration, Num(fps)))
        /\ \A k \in 1..n : q[k] = RMul(Num(k - 1), d) /\ RLt(q[k], duration)
        /\ \A k \in 1..(n - 1) : RLt(q[k], q[k + 1])
        /\ n > 0 => q[1] = Num(0)

RECURSIVE DigitsValue(_)
DigitsValue(s) ==
    IF s = <<>> THEN 0
    ELSE 10 * DigitsValue(SubSeq(s, 1, Len(s) - 1))
         + (CHOOSE v \in 0..9 : Digits[v + 1] = s[Len(s)])

\* C8: generateFilename renders the index with exactly paddingLength digits
\* (2 below 100 frames, 3 from 100, 4 from 1000, 5 from 10000), so that
\* "frame_%i" gives names of one length per run.
PaddedToOneWidth ==
    (call.returned /\ ~settings.useOriginalName
                   /\ settings.filenamePattern = FramePattern) =>
        LET t == call.totalFrames[1]
            width == IF t < 100 THEN 2 ELSE IF t < 1000 THEN 3
                     ELSE IF t < 10000 THEN 4 ELSE 5
            stem == Len(FramePattern) - Len(PercentI)
        IN  /\ Len(call.result) = stem + width + 1 + Len(settings.format)
            /\ SubSeq(call.result, 1, stem) = SubSeq(FramePattern, 1, stem)
            /\ DigitsValue(SubSeq(call.result, stem + 1, stem + width)) = call.index
            /\ SubSeq(call.result, stem + width + 1, Len(call.result))
                 = Dot \o settings.format

\* C9: with "Use video filename" on, a frame's filename is the name of the
\* selected video file without its last extension, "_", the padded index,
\* "." and the format.
NamedAfterVideoFile ==
    settings.useOriginalName =>
        \A i \in DOMAIN log.stores :
            log.stores[i].filename =
                StripExtension(ui.videoFile.name) \o Underscore
                \o PadStart(NumberToString(log.stores[i].index),
                            PaddingLength(run.totalFrames), "0")
                \o Dot \o settings.format

\* the last file handed to handleFileSelect
LastSelected(l) == l.selects[Len(l.selects)]

IsVideoType(type) == Len(type) >= 6 /\ SubSeq(type, 1, 6) = VideoSlash

\* C10: handleFileSelect accepts a file exactly when its type starts with
\* "video/": it then sets videoFile and videoUrl and resets isPlaying and
\* progress; otherwise it alerts and leaves those four as they were.
FileSelectChecksMimeOnly ==
    [][Len(log'.selects) > Len(log.selects) =>
        LET file == LastSelected(log') IN
        IF file.defined /\ IsVideoType(file.type)
        THEN /\ ui'.videoFile = file
             /\ ui'.videoUrl # <<>> /\ ui'.videoUrl # ui.videoUrl
             /\ ui'.isPlaying = FALSE
             /\ ui'.progress = 0
             /\ ui'.alerts = ui.alerts
        ELSE /\ ui'.alerts = ui.alerts + 1
             /\ ui'.videoFile = ui.videoFile
             /\ ui'.videoUrl = ui.videoUrl
             /\ ui'.isPlaying = ui.isPlaying
             /\ ui'.progress = ui.progress]_vars

\* C10 witness: of three files handed to handleFileSelect one was turned down
\* with an alert and two were accepted, the last of them being the one shown.
VideoAcceptedAfterRefusal ==
    /\ Len(log.selects) = MaxSelects
    /\ ui.videoFile = LastSelected(log)
    /\ ui.alerts = 1
    /\ ui.urls = 2
    /\ ~ui.isPlaying

RunEnded == run.pc \in {"done", "failed"}

CleanupOnEveryPath ==
    /\ RunEnded =>
         /\ ~ui.isProcessing
         /\ ui.progress = 0
         /\ DOMAIN fw = 1..WorkerCount
         /\ \A w \in DOMAIN fw : fw[w].terminated
    /\ run.pc \in {"frames", "compress", "download"} =>
         /\ ui.isProcessing
         /\ \A w \in DOMAIN fw : ~fw[w].terminated
    /\ run.pc = "failed" <=> ui.alerts = 1

\* C14 witness: a run with two frame workers that had reported 100 percent
\* has ended by an error of the streamed download.
EndedByDownloadError ==
    /\ run.pc = "failed"
    /\ Len(log.downloads) = 1
    /\ log.reports # <<>>
    /\ log.reports[Len(log.reports)].value = 100
    /\ DOMAIN fw = 1..2

\* C15: the frame worker answers each request once and from that request
\* alone: whenever a running worker takes a request from its inbox, its
\* outbox gains exactly one reply, which is either the success made of that
\* request's frameNumber and of its image encoded in its format, or an error
\* with a non-empty message; an outbox gains a reply in no other way; a reply
\* has the fields of a success or the field of an error, never both; and of
\* the requests posted to a running worker each is waiting, answered, or
\* stored by its coroutine.
RepliesTo(request) ==
    {reply \in {[frameNumber |-> request.frameNumber,
                 data |-> [format |-> request.format,
                           image |-> request.imageData]]} \cup
               {[error |-> m] : m \in {"Failed to get context", "Unknown error"}} :
        "error" \in DOMAIN reply => reply.error # ""}

TakesRequest(w) ==
    /\ w \in DOMAIN fw
    /\ ~fw'[w].terminated
    /\ fw[w].inbox # <<>>
    /\ fw'[w].inbox = Tail(fw[w].inbox)

OneReplyPerRequestStep ==
    \A w \in DOMAIN fw' :
      /\ TakesRequest(w) =>
           \E reply \in RepliesTo(Head(fw[w].inbox)) :
              fw'[w].outbox = Append(fw[w].outbox, reply)
      /\ (w \in DOMAIN fw /\ Len(fw'[w].outbox) > Len(fw[w].outbox)) =>
           TakesRequest(w)
      /\ w \notin DOMAIN fw => fw'[w].outbox = <<>>
      /\ \A i \in DOMAIN fw'[w].outbox :
           DOMAIN fw'[w].outbox[i] \in {{"frameNumber", "data"}, {"error"}}
      /\ ~fw'[w].terminated =>
           Cardinality({i \in DOMAIN log'.posts : log'.posts[i].worker = w})
             = Len(fw'[w].inbox) + Len(fw'[w].outbox)
               + Cardinality({j \in DOMAIN log'.stores :
                                WorkerOf(log'.stores[j].co) = w})

FrameWorkerRepliesOnce == [][OneReplyPerRequestStep]_vars

\* C15 witness: a worker that has answered an earlier request, whose frame is
\* stored, has answered its next request with a success.
SecondRequestAnswered ==
    \E w \in DOMAIN fw :
       /\ Len(fw[w].outbox) = 1
       /\ ~IsErrorResponse(fw[w].outbox[1])
       /\ fw[w].outbox[1].frameNumber >= 1
       /\ \E j \in DOMAIN log.stores : WorkerOf(log.stores[j].co) = w

\* every coroutine has left its loop, the queue is empty and
\* processFramesWithWorkers has resolved
CaptureLoopDone ==
    /\ \A c \in DOMAIN co : co[c].pc = "done"
    /\ run.frameQueue = <<>>
    /\ Resolved

\* a coroutine has thrown: its worker answered with an error, or it got no
\* canvas context
CaptureLoopFailed == \E c \in DOMAIN co : co[c].pc = "failed"

AwaitsSeeked(c) == c \in DOMAIN co /\ co[c].pc = "awaitSeeked"

====
